---- MODULE Spec2Model ----
(***************************************************************************)
(* Option Chain Formatter: the column-extraction / metric-derivation       *)
(* pipeline (process_option_chain) and the rendering of the canonical      *)
(* table (apply_formatting, save_with_color_scaling,                       *)
(* style_dataframe_for_preview) of src/app.py and src/desktopApp.py.       *)
(*                                                                         *)
(* Text is a sequence of one-character strings, so that strip(), exact     *)
(* (case-sensitive) comparison, number parsing and f"Column_{i}" are       *)
(* computed and not assumed.  Numbers are exact decimals held in tenths    *)
(* (Scale): 5.4 is 54.  A cell of the raw DataFrame is text, a number or   *)
(* NaN.                                                                    *)
(***************************************************************************)
EXTENDS Integers, Sequences, FiniteSets, TLC

\* ------------------------------------------------------------------ bounds
MaxDataRows == 2

\* --------------------------------------------------------------- constants
MoneyDivisor == 10000000
ExcelLastRow == 1000

\* -------------------------------------------------------------------- text
Digits == <<"0", "1", "2", "3", "4", "5", "6", "7", "8", "9">>

\* numbers are held in tenths (one decimal digit)
Scale == Len(Digits)

\* limb of the exact long multiplication below
Limb == Scale * Scale * Scale * Scale

IsDigit(c) == \E i \in 1..10 : Digits[i] = c

DigitValue(c) == (CHOOSE i \in 1..10 : Digits[i] = c) - 1

RECURSIVE NatToText(_)
\* str(i) of a non-negative integer
NatToText(n) ==
    IF n < 10 THEN <<Digits[n + 1]>>
    ELSE NatToText(n \div 10) \o <<Digits[(n % 10) + 1]>>

\* str(x) of a number held in tenths, as a spreadsheet export writes it
DecToText(t) ==
    LET a == IF t < 0 THEN -t ELSE t
        s == IF t < 0 THEN <<"-">> ELSE <<>>
        f == IF a % Scale = 0 THEN <<>> ELSE <<".", Digits[(a % Scale) + 1]>>
    IN  s \o NatToText(a \div Scale) \o f

RECURSIVE LStrip(_)
LStrip(s) == IF s # <<>> /\ Head(s) = " " THEN LStrip(Tail(s)) ELSE s

RECURSIVE RStrip(_)
RStrip(s) ==
    IF s # <<>> /\ s[Len(s)] = " " THEN RStrip(SubSeq(s, 1, Len(s) - 1)) ELSE s

\* str.strip()
Strip(s) == RStrip(LStrip(s))

\* --------------------------------------------------------------- raw cells
Str(s) == [t |-> "str", s |-> s, n |-> 0]
Num(n) == [t |-> "num", s |-> <<>>, n |-> n]
NaNCell == [t |-> "nan", s |-> <<>>, n |-> 0]

\* pd.notna(h)
NotNa(c) == c.t # "nan"

\* ------------------------------------------------------------ float values
Val(n) == [nan |-> FALSE, v |-> n]
NaN == [nan |-> TRUE, v |-> 0]

RECURSIVE DigitsToNat(_)
DigitsToNat(s) ==
    IF s = <<>> THEN 0
    ELSE DigitsToNat(SubSeq(s, 1, Len(s) - 1)) * 10 + DigitValue(s[Len(s)])

AllDigits(s) == \A i \in 1..Len(s) : IsDigit(s[i])

\* digits [. digit] without sign, in tenths; NaN when it is not a number
ParseParts(ip, fp, ndots) ==
    IF /\ ndots <= 1
       /\ AllDigits(ip) /\ AllDigits(fp)
       /\ Len(ip) + Len(fp) >= 1
       /\ Len(fp) <= 1
    THEN Val(DigitsToNat(ip) * Scale + DigitsToNat(fp))
    ELSE NaN

ParseUnsigned(u, dots) ==
    IF dots = {} THEN ParseParts(u, <<>>, 0)
    ELSE ParseParts(SubSeq(u, 1, (CHOOSE i \in dots : TRUE) - 1),
                    SubSeq(u, (CHOOSE i \in dots : TRUE) + 1, Len(u)),
                    Cardinality(dots))

ParseBody(u) == ParseUnsigned(u, {i \in 1..Len(u) : u[i] = "."})

Negated(x) == IF x.nan THEN NaN ELSE Val(-x.v)

ParseStripped(s) ==
    IF s # <<>> /\ Head(s) = "-" THEN Negated(ParseBody(Tail(s)))
    ELSE IF s # <<>> /\ Head(s) = "+" THEN ParseBody(Tail(s))
    ELSE ParseBody(s)

\* the number a text denotes: [sign] digits [. digit], in tenths; NaN when
\* the text is not a number (errors="coerce")
ParseNumber(s0) == ParseStripped(Strip(s0))

\* variant of ToNumeric: text that is not a number reads as 0
ToNumeric_zero(c) ==
    CASE c.t = "num" -> Val(c.n)
      [] c.t = "nan" -> NaN
      [] OTHER -> IF ParseNumber(c.s).nan THEN Val(0) ELSE ParseNumber(c.s)

\* pd.to_numeric(cell, errors="coerce") on one cell
ToNumeric(c) ==
    CASE c.t = "num" -> Val(c.n)
      [] c.t = "nan" -> NaN
      [] OTHER -> ParseNumber(c.s)

\* str(h) of a cell
CellStr(c) ==
    CASE c.t = "str" -> c.s
      [] c.t = "num" -> DecToText(c.n)
      [] OTHER -> <<"n", "a", "n">>

\* ------------------------------------------------------------ column names
NameTime == <<"T", "i", "m", "e">>
NameStrike == <<"S", "t", "r", "i", "k", "e", " ", "P", "r", "i", "c", "e">>
NameOIChg == <<"O", "I", " ", "C", "h", "g">>
NameOI == <<"O", "I">>
NameVWAP == <<"V", "W", "A", "P">>

\* the eight series_by_pos calls, in the order the code makes them
Required ==
    << [name |-> NameTime, occ |-> 0, var |-> "time_s"],
       [name |-> NameStrike, occ |-> 0, var |-> "strike_s"],
       [name |-> NameOIChg, occ |-> 0, var |-> "ce_oi_chg_s"],
       [name |-> NameOI, occ |-> 0, var |-> "ce_oi_s"],
       [name |-> NameVWAP, occ |-> 0, var |-> "ce_vwap_s"],
       [name |-> NameVWAP, occ |-> 1, var |-> "pe_vwap_s"],
       [name |-> NameOI, occ |-> 1, var |-> "pe_oi_s"],
       [name |-> NameOIChg, occ |-> 1, var |-> "pe_oi_chg_s"] >>

\* variant of final_order: the two put-side OI columns change places
final_order_swapped ==
    << "Time", "CE OI CHANGE", "CE OI", "CE MONEY", "CE BEP", "CE VWAP",
       "Strike Price", "PE VWAP", "PE BEP", "PE MONEY", "PE OI CHANGE",
       "PE OI" >>

final_order ==
    << "Time", "CE OI CHANGE", "CE OI", "CE MONEY", "CE BEP", "CE VWAP",
       "Strike Price", "PE VWAP", "PE BEP", "PE MONEY", "PE OI",
       "PE OI CHANGE" >>

\* ------------------------------------------------------- header resolution
\* app.py: blank or NaN header cells become Column_<i>, the others are trimmed
CleanHeaders(row) ==
    [i \in 1..Len(row) |->
        IF NotNa(row[i]) /\ Strip(CellStr(row[i])) # <<>>
        THEN Str(Strip(CellStr(row[i])))
        ELSE Str(<<"C", "o", "l", "u", "m", "n", "_">> \o NatToText(i - 1))]

\* headers of the variant: app.py cleans row 1, desktopApp.py takes it as is
Headers(v, raw) == IF v = "app" THEN CleanHeaders(raw[2]) ELSE raw[2]

\* data = raw.iloc[2:]
DataBlock(raw) == SubSeq(raw, 3, Len(raw))

HeaderMatches(v, h, name) ==
    IF v = "app" THEN Strip(CellStr(h)) = name
    ELSE h.t = "str" /\ Strip(h.s) = name

\* 0-based positions whose header is name, left to right
col_positions(v, headers, name) ==
    LET idx == [i \in 1..Len(headers) |-> i - 1]
        Match(p) == HeaderMatches(v, headers[p + 1], name)
    IN  SelectSeq(idx, Match)

\* data.iloc[:, pos]
ColumnAt(data, pos) == [r \in 1..Len(data) |-> data[r][pos + 1]]

NoColumn == <<>>

\* variant of series_by_pos: the occurrence is ignored once the name is found
series_by_pos_first(v, headers, data, name, occurrence) ==
    LET pos_list == col_positions(v, headers, name)
    IN  IF Len(pos_list) <= occurrence
        THEN [raised |-> TRUE, col |-> NoColumn,
              err |-> [kind |-> "KeyError", name |-> name,
                       occurrence |-> occurrence, positions |-> pos_list]]
        ELSE [raised |-> FALSE, col |-> ColumnAt(data, pos_list[1]),
              err |-> [kind |-> "none", name |-> <<>>, occurrence |-> 0,
                       positions |-> <<>>]]

\* variant of series_by_pos: a missing occurrence falls back to the last
\* column of that name, and only a name found nowhere raises
series_by_pos_lenient(v, headers, data, name, occurrence) ==
    LET pos_list == col_positions(v, headers, name)
    IN  IF Len(pos_list) = 0
        THEN [raised |-> TRUE, col |-> NoColumn,
              err |-> [kind |-> "KeyError", name |-> name,
                       occurrence |-> occurrence, positions |-> pos_list]]
        ELSE [raised |-> FALSE,
              col |-> ColumnAt(data,
                               pos_list[IF Len(pos_list) <= occurrence
                                        THEN Len(pos_list) ELSE occurrence + 1]),
              err |-> [kind |-> "none", name |-> <<>>, occurrence |-> 0,
                       positions |-> <<>>]]

series_by_pos(v, headers, data, name, occurrence) ==
    LET pos_list == col_positions(v, headers, name)
    IN  IF Len(pos_list) <= occurrence
        THEN [raised |-> TRUE, col |-> NoColumn,
              err |-> [kind |-> "KeyError", name |-> name,
                       occurrence |-> occurrence, positions |-> pos_list]]
        ELSE [raised |-> FALSE, col |-> ColumnAt(data, pos_list[occurrence + 1]),
              err |-> [kind |-> "none", name |-> <<>>, occurrence |-> 0,
                       positions |-> <<>>]]

\* -------------------------------------------------------------- arithmetic
Abs(x) == IF x < 0 THEN -x ELSE x

Sign(x) == IF x < 0 THEN -1 ELSE 1

\* variant of RoundHalfEven: ties go away from zero
RoundHalfEven_up(q, r, den) == IF 2 * r < den THEN q ELSE q + 1

\* numpy round of q + r/den (0 <= r < den) to the nearest integer, ties to
\* the even one
RoundHalfEven(q, r, den) ==
    IF 2 * r < den THEN q
    ELSE IF 2 * r > den THEN q + 1
    ELSE IF q % 2 = 0 THEN q ELSE q + 1

\* (x + y).round(0)
AddRound(x, y) ==
    IF x.nan \/ y.nan THEN NaN
    ELSE LET s == x.v + y.v
         IN  Val(Sign(s) * RoundHalfEven(Abs(s) \div Scale, Abs(s) % Scale, Scale)
                     * Scale)

Neg(x) == IF x.nan THEN NaN ELSE Val(-x.v)

\* (x - y).round(0)
SubRound(x, y) == AddRound(x, Neg(y))

\* the rounded (a * b) / 10_000_000 of two numbers in tenths; the product is
\* formed exactly by long multiplication in limbs of 10^4, as
\* hi * Limb^2 + lo with lo < Limb^2
RoundedQuotient(xv, yv) ==
    LET a == Abs(xv)
        b == Abs(yv)
        a1 == a \div Limb
        a0 == a % Limb
        b1 == b \div Limb
        b0 == b % Limb
        p0 == a0 * b0
        t1 == a1 * b0 + a0 * b1 + (p0 \div Limb)
        lo == (t1 % Limb) * Limb + (p0 % Limb)
        hi == a1 * b1 + (t1 \div Limb)
        \* the divisor 10^7 * Scale^2, in units of Limb^2
        d == (MoneyDivisor * Scale * Scale) \div (Limb * Limb)
        q == hi \div d
        r == (hi % d) * (Limb * Limb) + lo
        n == RoundHalfEven(q, r, MoneyDivisor * Scale * Scale)
    IN  Val(Sign(xv) * Sign(yv) * n * Scale)

\* variant of MulDivRound: a missing operand counts as 0
MulDivRound_fillna(x, y) ==
    RoundedQuotient(IF x.nan THEN 0 ELSE x.v, IF y.nan THEN 0 ELSE y.v)

\* ((x * y) / 10_000_000).round(0)
MulDivRound(x, y) ==
    IF x.nan \/ y.nan THEN NaN ELSE RoundedQuotient(x.v, y.v)

\* ------------------------------------------------------------ the pipeline
\* pd.to_numeric(series, errors="coerce")
to_numeric(col) == [r \in 1..Len(col) |-> ToNumeric(col[r])]

\* a DataFrame: its column names in order, and each column's values
EmptyFrame == [columns |-> <<>>, col |-> <<>>]

\* out[name] = values
SetColumn(df, name, values) ==
    [columns |-> Append(df.columns, name),
     col |-> Append(df.col, values)]

ColumnIndex(df, name) == CHOOSE i \in 1..Len(df.columns) : df.columns[i] = name

GetColumn(df, name) == df.col[ColumnIndex(df, name)]

\* out[order]
Reorder(df, order) ==
    [columns |-> order,
     col |-> [i \in 1..Len(order) |-> GetColumn(df, order[i])]]

\* len(df)
FrameLen(df) == IF df.col = <<>> THEN 0 ELSE Len(df.col[1])

\* row-wise Series arithmetic of the four derived columns
MoneySeries(xs, ys) == [r \in 1..Len(xs) |-> MulDivRound(xs[r], ys[r])]

SumSeries(xs, ys) == [r \in 1..Len(xs) |-> AddRound(xs[r], ys[r])]

DiffSeries(xs, ys) == [r \in 1..Len(xs) |-> SubRound(xs[r], ys[r])]

\* step 4 of process_option_chain: the output with the computed fields
BuildOutput(time_s, strike_s, ce_oi_chg_s, ce_oi_s, ce_vwap_s, pe_vwap_s, pe_oi_s, pe_oi_chg_s) ==
    LET o1 == SetColumn(EmptyFrame, "Time", time_s)
        o2 == SetColumn(o1, "CE OI CHANGE", ce_oi_chg_s)
        o3 == SetColumn(o2, "CE OI", ce_oi_s)
        o4 == SetColumn(o3, "CE MONEY",
                        MoneySeries(GetColumn(o3, "CE OI CHANGE"), ce_vwap_s))
        o5 == SetColumn(o4, "CE BEP", SumSeries(strike_s, ce_vwap_s))
        o6 == SetColumn(o5, "CE VWAP", ce_vwap_s)
        o7 == SetColumn(o6, "Strike Price", strike_s)
        o8 == SetColumn(o7, "PE VWAP", pe_vwap_s)
        o9 == SetColumn(o8, "PE BEP", DiffSeries(strike_s, pe_vwap_s))
        o10 == SetColumn(o9, "PE MONEY",
                         MoneySeries(pe_oi_chg_s, pe_vwap_s))
        o11 == SetColumn(o10, "PE OI", pe_oi_s)
        o12 == SetColumn(o11, "PE OI CHANGE", pe_oi_chg_s)
    IN  Reorder(o12, final_order)

NoError == [kind |-> "none", name |-> <<>>, occurrence |-> 0, positions |-> <<>>]

IndexError == [kind |-> "IndexError", name |-> <<>>, occurrence |-> 0,
               positions |-> <<>>]

\* the exception of the first series_by_pos call that raised
FirstRaised(headers, got) ==
    LET first == CHOOSE i \in 1..Len(got) :
                     got[i].raised /\ \A j \in 1..(i - 1) : ~got[j].raised
    IN  [ok |-> FALSE, error |-> got[first].err, headers |-> headers,
         cols |-> <<>>, series |-> <<>>, out |-> EmptyFrame]

\* step 4: the table of the eight series
Built(headers, cols, series) ==
    [ok |-> TRUE, error |-> NoError, headers |-> headers,
     cols |-> cols, series |-> series,
     out |-> BuildOutput(series[1], series[2], series[3], series[4],
                         series[5], series[6], series[7], series[8])]

\* step 3: Time is taken as it is, the other seven go through pd.to_numeric
Coerced(headers, cols) ==
    Built(headers, cols,
          [i \in 1..Len(cols) |-> IF i = 1 THEN cols[i] ELSE to_numeric(cols[i])])

Extracted(headers, got) ==
    IF \E i \in 1..Len(got) : got[i].raised
    THEN FirstRaised(headers, got)
    ELSE Coerced(headers, [i \in 1..Len(got) |-> got[i].col])

\* the eight series_by_pos calls on the resolved headers and the data block
Resolved(v, headers, data) ==
    Extracted(headers,
              [i \in 1..Len(Required) |->
                  series_by_pos(v, headers, data, Required[i].name,
                                Required[i].occ)])

\* the body of process_option_chain up to the canonical table: the table, or
\* the exception that left the function
Process(v, table) ==
    IF Len(table) < 2
    THEN [ok |-> FALSE, error |-> IndexError, headers |-> <<>>,
          cols |-> <<>>, series |-> <<>>, out |-> EmptyFrame]
    ELSE Resolved(v, Headers(v, table), DataBlock(table))

\* --------------------------------------------------------------- rendering
ColumnLetters == <<"A", "B", "C", "D", "E", "F", "G", "H", "I", "J", "K", "L">>

\* column_index_from_string / get_column_letter
LetterIndex(l) == CHOOSE i \in 1..Len(ColumnLetters) : ColumnLetters[i] = l

\* ColorScaleRule(start_type='min', ..., end_type='max') added on
\* f'{col}{first}:{col}{last}'
ColorScaleRule(col, first, last, mid_type, mid_value, start_color, mid_color, end_color) ==
    [col |-> col, first |-> first, last |-> last,
     start_type |-> "min", start_color |-> start_color,
     mid_type |-> mid_type, mid_value |-> mid_value, mid_color |-> mid_color,
     end_type |-> "max", end_color |-> end_color]

NoSheet == [written |-> FALSE, columns |-> <<>>, nrows |-> 0,
            fills |-> {}, rules |-> {}]

\* the colour-scale rules apply_formatting adds for a table of n rows
AppRules(n) ==
    {ColorScaleRule(c, 2, n + 1, "num", 0, "9DC3E6", "FFFFFF", "1F4E79") :
        c \in {"B", "L"}}
    \cup
    {ColorScaleRule(c, 2, n + 1, "percentile", 50, "F5F5DC", "FFA07A", "786C3B") :
        c \in {"C", "K"}}
    \cup
    {ColorScaleRule(c, 2, n + 1, "num", 0, "F8696B", "FFEB84", "63BE7B") :
        c \in {"D", "J"}}

\* the pattern fills apply_formatting sets: the header row only
AppFills(df) ==
    {[row |-> 1, column |-> c, color |-> "4F81BD"] : c \in 1..Len(df.columns)}

\* df.to_excel followed by apply_formatting(worksheet, df)
apply_formatting(df) ==
    [written |-> TRUE, columns |-> df.columns, nrows |-> FrameLen(df),
     fills |-> AppFills(df), rules |-> AppRules(FrameLen(df))]

\* the colour-scale rules save_with_color_scaling adds
DesktopRules ==
    {ColorScaleRule(c, 2, ExcelLastRow, "num", 0, "9DC3E6", "FFFFFF", "1F4E79") :
        c \in {"B", "L"}}
    \cup
    {ColorScaleRule(c, 2, ExcelLastRow, "num", 0, "F8696B", "FFEB84", "63BE7B") :
        c \in {"D", "J"}}

save_with_color_scaling(df) ==
    [written |-> TRUE, columns |-> df.columns, nrows |-> FrameLen(df),
     fills |-> {}, rules |-> DesktopRules]

NoPreview == [shown |-> FALSE, styles |-> {}]

\* the colour maps of the preview: background_gradient spreads the three
\* colours linearly from the column's minimum to its maximum, the middle
\* colour at the middle of the range
columns_to_style ==
    {[column |-> c, anchor |-> "midrange",
      colors |-> <<"9DC3E6", "FFFFFF", "1F4E79">>] :
        c \in {"CE OI CHANGE", "PE OI CHANGE"}}
    \cup
    {[column |-> c, anchor |-> "midrange",
      colors |-> <<"FFF2CC", "F4B183", "8B4513">>] : c \in {"CE OI", "PE OI"}}
    \cup
    {[column |-> c, anchor |-> "midrange",
      colors |-> <<"F8696B", "FFEB84", "63BE7B">>] :
        c \in {"CE MONEY", "PE MONEY"}}

style_dataframe_for_preview(df) ==
    [shown |-> TRUE,
     styles |-> {st \in columns_to_style :
                    \E i \in 1..Len(df.columns) : df.columns[i] = st.column}]

\* ------------------------------------------------------------------ inputs
S(x) == Str(x)

Pad(x) == <<" ">> \o x \o <<" ">>

Banner ==
    <<S(<<"E", "x", "p">>), NaNCell, NaNCell, NaNCell, NaNCell, NaNCell,
      NaNCell, NaNCell>>

HStandard ==
    <<S(NameTime), S(NameOIChg), S(NameOI), S(NameVWAP), S(NameStrike),
      S(NameVWAP), S(NameOI), S(NameOIChg)>>

HAdjacent ==
    <<S(NameTime), S(NameOIChg), S(NameOIChg), S(NameOI), S(NameOI),
      S(NameVWAP), S(NameVWAP), S(NameStrike)>>

HPadded ==
    <<S(Pad(NameTime)), S(NameOIChg \o <<" ">>), S(Pad(NameOI)), S(NameVWAP),
      S(<<" ">> \o NameStrike), S(Pad(NameVWAP)), S(NameOI), S(NameOIChg)>>

HSwapped ==
    <<S(NameStrike), S(NameVWAP), S(NameOI), S(NameOIChg), S(NameTime),
      S(NameOIChg), S(NameOI), S(NameVWAP)>>

\* the second VWAP is spelt in lower case
HOneVWAP ==
    <<S(NameTime), S(NameOIChg), S(NameOI), S(NameVWAP), S(NameStrike),
      S(<<"v", "w", "a", "p">>), S(NameOI), S(NameOIChg)>>

HNoTime ==
    <<NaNCell, S(NameOIChg), S(NameOI), S(NameVWAP), S(NameStrike),
      S(NameVWAP), S(NameOI), S(NameOIChg)>>

\* blank cells where OI Chg (call side) and OI (put side) should be
HBlanks ==
    <<S(NameTime), S(<<" ">>), S(NameOI), S(NameVWAP), S(NameStrike),
      S(NameVWAP), NaNCell, S(NameOIChg)>>

\* a numeric header cell, as read without dtype=str
HNumeric ==
    <<S(NameTime), S(NameOIChg), S(NameOI), S(NameVWAP), S(NameStrike),
      S(NameVWAP), S(NameOI), Num(5 * Scale)>>

HeaderRows ==
    {HStandard, HAdjacent, HPadded, HSwapped, HOneVWAP, HNoTime, HBlanks,
     HNumeric}

T(n) == S(DecToText(n))

RowA ==
    <<S(<<"0", "9", ":", "1", "5">>), T(2000000 * Scale), T(500 * Scale), T(54),
      T(100 * Scale), T(35), T(700 * Scale), T(1000000 * Scale)>>

RowB ==
    <<S(<<"0", "9", ":", "2", "0">>), T(5000000 * Scale), T(10 * Scale),
      T(1 * Scale), T(101 * Scale), T(5), T(20 * Scale), T(-30000000 * Scale)>>

RowC ==
    <<S(<<"x">>), S(<<"a", "b">>), S(<<>>), T(2 * Scale), T(100 * Scale),
      S(<<"-">>), S(<<"1", ",", "0">>), T(15000000 * Scale)>>

RowD ==
    <<NaNCell, T(15000000 * Scale), T(-4 * Scale), T(25), T(102 * Scale),
      T(1 * Scale), T(8 * Scale), T(15000000 * Scale)>>

\* numeric cells, as read without dtype=str
RowE ==
    <<S(<<"0", "9", ":", "3", "0">>), Num(5000000 * Scale), Num(30 * Scale),
      Num(15), Num(100 * Scale), Num(25), Num(40 * Scale),
      Num(-5000000 * Scale)>>

DataRows == {RowA, RowB, RowC, RowD, RowE}

SeqsUpTo(P, n) == UNION {[1..k -> P] : k \in 0..n}

AllStr(row) == \A i \in 1..Len(row) : row[i].t # "num"

\* the raw DataFrames of a variant: app.py reads with dtype=str, so its cells
\* are text or NaN
RawTables(v) ==
    LET hs == IF v = "app" THEN {h \in HeaderRows : AllStr(h)} ELSE HeaderRows
        ds == IF v = "app" THEN {d \in DataRows : AllStr(d)} ELSE DataRows
    IN  {<<>>, <<Banner>>}
        \cup {<<Banner, h>> \o d : h \in hs, d \in SeqsUpTo(ds, MaxDataRows)}

\* ------------------------------------------------------------------- state
VARIABLES variant, raw, pc, headers, cols, series, out, error, sheet, preview

vars == <<variant, raw, pc, headers, cols, series, out, error, sheet, preview>>

Init ==
    /\ variant \in {"app", "desktop"}
    /\ raw \in RawTables(variant)
    /\ pc = "start"
    /\ headers = <<>>
    /\ cols = <<>>
    /\ series = <<>>
    /\ out = EmptyFrame
    /\ error = NoError
    /\ sheet = NoSheet
    /\ preview = NoPreview

\* app.py process_option_chain(df): the table, or None after st.error
AppProcessOptionChain ==
    /\ variant = "app" /\ pc = "start"
    /\ \E res \in {Process(variant, raw)} :
           /\ pc' = IF res.ok THEN "processed" ELSE "failed"
           /\ headers' = res.headers
           /\ cols' = res.cols
           /\ series' = res.series
           /\ out' = res.out
           /\ error' = res.error
    /\ UNCHANGED <<variant, raw, sheet, preview>>

\* app.py main(): to_excel and apply_formatting on the processed table.  With
\* no data row the range is 'B2:B1'; whether the spreadsheet library rejects
\* it (ValueError, reported by main) depends on its version
AppApplyFormatting ==
    /\ variant = "app" /\ pc = "processed"
    /\ \E rejects \in BOOLEAN :
        IF FrameLen(out) = 0 /\ rejects
        THEN /\ pc' = "failed"
             /\ error' = [NoError EXCEPT !.kind = "ValueError"]
             /\ sheet' = sheet
        ELSE /\ pc' = "formatted"
             /\ error' = error
             /\ sheet' = apply_formatting(out)
    /\ UNCHANGED <<variant, raw, headers, cols, series, out, preview>>

\* app.py main(): the preview of the processed table
AppStylePreview ==
    /\ variant = "app" /\ pc = "formatted"
    /\ pc' = "previewed"
    /\ preview' = style_dataframe_for_preview(out)
    /\ UNCHANGED <<variant, raw, headers, cols, series, out, error, sheet>>

\* desktopApp.py process_option_chain(input_path, output_path): the table is
\* built and saved in one call; an exception leaves no file
DesktopProcessOptionChain ==
    /\ variant = "desktop" /\ pc = "start"
    /\ \E res \in {Process(variant, raw)} :
           /\ pc' = IF res.ok THEN "saved" ELSE "failed"
           /\ headers' = res.headers
           /\ cols' = res.cols
           /\ series' = res.series
           /\ out' = res.out
           /\ error' = res.error
           /\ sheet' = IF res.ok THEN save_with_color_scaling(res.out) ELSE sheet
    /\ UNCHANGED <<variant, raw, preview>>

Next ==
    \/ AppProcessOptionChain
    \/ AppApplyFormatting
    \/ AppStylePreview
    \/ DesktopProcessOptionChain

Spec == Init /\ [][Next]_vars

\* ---------------------------------------------------- vocabulary of claims
\* the header cell's trimmed name equals name exactly
TrimmedIs(c, name) == c.t = "str" /\ Strip(c.s) = name

\* the 0-based positions of row 1 whose trimmed name is name
MatchSet(name) ==
    IF Len(raw) < 2 THEN {}
    ELSE {p \in 0..(Len(raw[2]) - 1) : TrimmedIs(raw[2][p + 1], name)}

\* the (k+1)-th of them from the left
NthMatch(name, k) ==
    CHOOSE p \in MatchSet(name) :
        Cardinality({q \in MatchSet(name) : q < p}) = k

Missing(i) == Cardinality(MatchSet(Required[i].name)) <= Required[i].occ

NumDataRows == IF Len(raw) < 2 THEN 0 ELSE Len(raw) - 2

\* process_option_chain has run and built its table
Succeeded == pc # "start" /\ error.kind \notin {"IndexError", "KeyError"}

\* the cell of data row r below the (occ+1)-th header named as pair i asks
SourceCell(i, r) == raw[r + 2][NthMatch(Required[i].name, Required[i].occ) + 1]

\* C1: whenever row 1 has at least occurrence+1 positions named `name`,
\* series_by_pos(name, occurrence) returns the data column at the
\* (occurrence+1)-th such position from the left; VWAP@0 / OI@0 / OI Chg@0 are
\* the first match and VWAP@1 / OI@1 / OI Chg@1 the second, adjacent or not.
C1_ExtractByOccurrence ==
    Succeeded =>
        \A i \in 1..Len(Required) :
            /\ ~Missing(i)
            /\ Len(cols[i]) = NumDataRows
            /\ \A r \in 1..NumDataRows : cols[i][r] = SourceCell(i, r)

\* a run on adjacent same-named columns whose two VWAP columns differ
C1_Witness ==
    /\ Succeeded
    /\ raw[2] = HAdjacent
    /\ NumDataRows >= 1
    /\ NthMatch(NameVWAP, 1) = NthMatch(NameVWAP, 0) + 1
    /\ cols[5] # cols[6]

\* C2: whenever one of the eight required pairs has fewer than occurrence+1
\* matching header positions, processing fails with a missing-column error
\* carrying the requested name, the requested occurrence and exactly the
\* positions found for that name, and neither a canonical table nor a sheet
\* (nor a preview) is produced.
C2_MissingColumnFails ==
    (pc # "start" /\ Len(raw) >= 2 /\ \E i \in 1..Len(Required) : Missing(i)) =>
        /\ pc = "failed"
        /\ error.kind = "KeyError"
        /\ \E i \in 1..Len(Required) :
              /\ Missing(i)
              /\ \A j \in 1..(i - 1) : ~Missing(j)
              /\ error.name = Required[i].name
              /\ error.occurrence = Required[i].occ
        /\ Len(error.positions) = Cardinality(MatchSet(error.name))
        /\ \A k \in 1..Len(error.positions) :
              error.positions[k] = NthMatch(error.name, k - 1)
        /\ out = EmptyFrame
        /\ ~sheet.written
        /\ ~preview.shown

\* the second VWAP is missing and the one position found is reported
C2_Witness ==
    /\ pc = "failed"
    /\ error.kind = "KeyError"
    /\ error.name = NameVWAP
    /\ error.occurrence = 1
    /\ error.positions = <<3>>
    /\ NumDataRows >= 1

\* C3 (as claimed): processing fails with a structural error and no output
\* exactly when the raw table has fewer than 3 rows.
C3_StructuralErrorBelowThreeRows ==
    pc # "start" =>
        ((error.kind = "IndexError" /\ out = EmptyFrame /\ ~sheet.written)
            <=> Len(raw) < 3)

\* a cell a number can be read from: a number, or text of the form
\* [sign] digits [. digits] with at least one digit
DigitChars == {"0", "1", "2", "3", "4", "5", "6", "7", "8", "9"}

NumericText(s) ==
    LET u == Strip(s)
        body == IF u # <<>> /\ Head(u) \in {"-", "+"} THEN Tail(u) ELSE u
    IN  /\ \A i \in 1..Len(body) : body[i] \in DigitChars \cup {"."}
        /\ Cardinality({i \in 1..Len(body) : body[i] = "."}) <= 1
        /\ \E i \in 1..Len(body) : body[i] \in DigitChars

LooksNumeric(c) == c.t = "num" \/ (c.t = "str" /\ NumericText(c.s))

\* C4 (as claimed): each of the eight extracted series, Time@0 included, has
\* one entry per data row, and every entry whose source cell is not a number
\* is the missing-value marker.
C4_AllEightCoerced ==
    Succeeded =>
        \A i \in 1..Len(Required) :
            /\ Len(series[i]) = NumDataRows
            /\ \A r \in 1..NumDataRows :
                  ~LooksNumeric(SourceCell(i, r)) =>
                      IF i = 1 THEN series[i][r].t = "nan" ELSE series[i][r].nan

\* C4 (amended): each of the eight extracted series has one entry per data
\* row; in the seven numeric series (all but Time@0) an entry is the
\* missing-value marker exactly when its source cell is not a number; the
\* Time@0 series keeps its source cells as they are; no cell aborts the run.
C4_SevenCoercedTimeVerbatim ==
    (pc # "start" /\ Len(raw) >= 2 /\ \A i \in 1..Len(Required) : ~Missing(i)) =>
        /\ Succeeded
        /\ \A i \in 1..Len(Required) :
              /\ Len(series[i]) = NumDataRows
              /\ \A r \in 1..NumDataRows :
                    IF i = 1 THEN series[i][r] = SourceCell(i, r)
                    ELSE series[i][r].nan <=> ~LooksNumeric(SourceCell(i, r))

\* a run with a non-numeric Time cell kept as text and a non-numeric text
\* cell of a numeric column read as missing
C4_Witness ==
    /\ Succeeded
    /\ \E r \in 1..NumDataRows :
          /\ ~LooksNumeric(SourceCell(1, r))
          /\ series[1][r].t = "str"
          /\ \E i \in 2..Len(Required) :
                /\ SourceCell(i, r).t = "str"
                /\ ~LooksNumeric(SourceCell(i, r))
                /\ series[i][r].nan

\* the value of column name in output row r
Cell(name, r) == GetColumn(out, name)[r]

RECURSIVE ProductDivMod(_, _, _)
\* <<q, r>> with a * b = q * D + r and 0 <= r < D, by doubling (a, b >= 0)
ProductDivMod(a, b, D) ==
    IF b = 0 THEN <<0, 0>>
    ELSE LET h == ProductDivMod(a, b \div 2, D)
             add == IF b % 2 = 1 THEN a ELSE 0
             r2 == ((2 * h[2]) % D) + (add % D)
         IN  <<2 * h[1] + ((2 * h[2]) \div D) + (add \div D) + (r2 \div D),
               r2 % D>>

\* M is the integer nearest to q + r/D, the even one of the two on a tie
NearestTiesEven(M, q, r, D) ==
    \/ M = q /\ 2 * r < D
    \/ M = q + 1 /\ 2 * r > D
    \/ M \in {q, q + 1} /\ 2 * r = D /\ M % 2 = 0

\* m = round((x * y) / 10,000,000), all three in tenths
IsMoney(m, x, y) ==
    LET qr == ProductDivMod(Abs(x.v), Abs(y.v), 10000000 * 10 * 10)
    IN  /\ ~m.nan
        /\ m.v % 10 = 0
        /\ NearestTiesEven(Abs(m.v) \div 10, qr[1], qr[2], 10000000 * 10 * 10)
        /\ m.v # 0 => ((m.v < 0) <=> ((x.v < 0) # (y.v < 0)))

\* b = round(s), s in tenths
IsRounded(b, s) ==
    /\ ~b.nan
    /\ b.v % 10 = 0
    /\ 2 * Abs(s - b.v) <= 10
    /\ 2 * Abs(s - b.v) = 10 => (b.v \div 10) % 2 = 0

\* C5: in every output row whose operands are present,
\* CE MONEY = round(CE OI CHANGE * CE VWAP / 10,000,000),
\* PE MONEY = round(PE OI CHANGE * PE VWAP / 10,000,000),
\* CE BEP = round(Strike + CE VWAP), PE BEP = round(Strike - PE VWAP),
\* to the nearest integer with ties to even; Strike=100, CE VWAP=5.4,
\* CE OI CHANGE=2,000,000 gives CE BEP=105 and CE MONEY=1.
C5_DerivedFormulas ==
    Succeeded =>
        \A r \in 1..NumDataRows :
            LET k == Cell("Strike Price", r)
                cv == Cell("CE VWAP", r)
                pv == Cell("PE VWAP", r)
                cc == Cell("CE OI CHANGE", r)
                pc2 == Cell("PE OI CHANGE", r)
            IN  /\ (~cc.nan /\ ~cv.nan) => IsMoney(Cell("CE MONEY", r), cc, cv)
                /\ (~pc2.nan /\ ~pv.nan) => IsMoney(Cell("PE MONEY", r), pc2, pv)
                /\ (~k.nan /\ ~cv.nan) => IsRounded(Cell("CE BEP", r), k.v + cv.v)
                /\ (~k.nan /\ ~pv.nan) => IsRounded(Cell("PE BEP", r), k.v - pv.v)
                /\ (k = Val(1000) /\ cv = Val(54) /\ cc = Val(20000000)) =>
                      /\ Cell("CE BEP", r) = Val(1050)
                      /\ Cell("CE MONEY", r) = Val(10)

\* the example row of the claim, in a table that also has a tie in a breakeven
\* price and a tie in a notional flow
C5_Witness ==
    /\ Succeeded
    /\ \E r \in 1..NumDataRows :
          /\ Cell("Strike Price", r) = Val(1000)
          /\ Cell("CE VWAP", r) = Val(54)
          /\ Cell("CE OI CHANGE", r) = Val(20000000)
          /\ Cell("CE BEP", r) = Val(1050)
          /\ Cell("CE MONEY", r) = Val(10)
    /\ \E r \in 1..NumDataRows :
          /\ Cell("Strike Price", r) = Val(1010)
          /\ Cell("PE VWAP", r) = Val(5)
          /\ Cell("PE BEP", r) = Val(1000)
          /\ Cell("CE OI CHANGE", r) = Val(50000000)
          /\ Cell("CE VWAP", r) = Val(10)
          /\ Cell("CE MONEY", r) = Val(0)
          /\ Cell("PE MONEY", r) = Val(-20)

\* C6: in every output row a derived cell is missing as soon as one of its
\* operands is missing, whatever the other operands are: CE MONEY with
\* CE OI CHANGE or CE VWAP, CE BEP with Strike or CE VWAP, PE BEP with Strike
\* or PE VWAP, PE MONEY with PE OI CHANGE or PE VWAP; it is never 0 instead.
C6_MissingPropagates ==
    Succeeded =>
        \A r \in 1..NumDataRows :
            LET k == Cell("Strike Price", r)
                cv == Cell("CE VWAP", r)
                pv == Cell("PE VWAP", r)
                cc == Cell("CE OI CHANGE", r)
                pc2 == Cell("PE OI CHANGE", r)
            IN  /\ (cc.nan \/ cv.nan) => Cell("CE MONEY", r) = NaN
                /\ (k.nan \/ cv.nan) => Cell("CE BEP", r) = NaN
                /\ (k.nan \/ pv.nan) => Cell("PE BEP", r) = NaN
                /\ (pc2.nan \/ pv.nan) => Cell("PE MONEY", r) = NaN

\* a row whose put-side VWAP alone is missing, and a row whose call-side
\* OI CHANGE alone is missing
C6_Witness ==
    /\ Succeeded
    /\ \E r \in 1..NumDataRows :
          /\ Cell("PE VWAP", r).nan
          /\ ~Cell("PE OI CHANGE", r).nan
          /\ ~Cell("Strike Price", r).nan
          /\ Cell("PE MONEY", r).nan
          /\ Cell("PE BEP", r).nan
    /\ \E r \in 1..NumDataRows :
          /\ Cell("CE OI CHANGE", r).nan
          /\ ~Cell("CE VWAP", r).nan
          /\ Cell("CE MONEY", r).nan
          /\ ~Cell("CE BEP", r).nan

\* C7: every successful run yields the 12 columns Time, CE OI CHANGE, CE OI,
\* CE MONEY, CE BEP, CE VWAP, Strike Price, PE VWAP, PE BEP, PE MONEY, PE OI,
\* PE OI CHANGE in that order, one output row per data row in input order,
\* each output row built from the cells of the same input row only, wherever
\* the source columns sit in the input.
C7_CanonicalTable ==
    Succeeded =>
        /\ out.columns =
              << "Time", "CE OI CHANGE", "CE OI", "CE MONEY", "CE BEP",
                 "CE VWAP", "Strike Price", "PE VWAP", "PE BEP", "PE MONEY",
                 "PE OI", "PE OI CHANGE" >>
        /\ Len(out.col) = 12
        /\ \A c \in 1..12 : Len(out.col[c]) = NumDataRows
        /\ \A r \in 1..NumDataRows :
              /\ out.col[1][r] = SourceCell(1, r)
              /\ out.col[2][r] = ToNumeric(SourceCell(3, r))
              /\ out.col[3][r] = ToNumeric(SourceCell(4, r))
              /\ out.col[6][r] = ToNumeric(SourceCell(5, r))
              /\ out.col[7][r] = ToNumeric(SourceCell(2, r))
              /\ out.col[8][r] = ToNumeric(SourceCell(6, r))
              /\ out.col[11][r] = ToNumeric(SourceCell(7, r))
              /\ out.col[12][r] = ToNumeric(SourceCell(8, r))
        /\ \A r1, r2 \in 1..NumDataRows :
              (\A c \in {2, 6, 7, 8, 12} : out.col[c][r1] = out.col[c][r2]) =>
                  \A c \in {4, 5, 9, 10} : out.col[c][r1] = out.col[c][r2]

\* a run on the layout with Strike Price first and Time fifth, two different
\* data rows
C7_Witness ==
    /\ Succeeded
    /\ raw[2] = HSwapped
    /\ NumDataRows = 2
    /\ raw[3] # raw[4]
    /\ out.col[1] # <<NaNCell, NaNCell>>

\* the colour-scale rules of the sheet on the column called name
RulesOn(name) ==
    {ru \in sheet.rules :
        /\ LetterIndex(ru.col) <= Len(sheet.columns)
        /\ sheet.columns[LetterIndex(ru.col)] = name}

ScaledColumns ==
    {"CE OI CHANGE", "PE OI CHANGE", "CE MONEY", "PE MONEY", "CE OI", "PE OI"}

\* the anchor policy and palette the specification gives a scaled column
Assigned(name) ==
    CASE name \in {"CE OI CHANGE", "PE OI CHANGE"} ->
            [mid_type |-> "num", mid_value |-> 0,
             colors |-> <<"F8696B", "FFEB84", "63BE7B">>]
      [] name \in {"CE MONEY", "PE MONEY"} ->
            [mid_type |-> "percentile", mid_value |-> 50,
             colors |-> <<"9DC3E6", "FFFFFF", "1F4E79">>]
      [] OTHER ->
            [mid_type |-> "percentile", mid_value |-> 50,
             colors |-> <<"FFF2CC", "F4B183", "8B4513">>]

Palette(ru) == <<ru.start_color, ru.mid_color, ru.end_color>>

\* C8 (as claimed): in the rendered sheet each of the six scaled columns has
\* exactly one colour-scale rule, over every data row, with the assigned
\* policy and palette (OI-change pair zero-anchored red/yellow/green, MONEY
\* pair 50th-percentile blue/white/dark blue, OI pair 50th-percentile
\* beige/orange/brown), and no other column has one.
C8_ColourScalesAsAssigned ==
    sheet.written =>
        /\ \A name \in ScaledColumns :
              /\ Cardinality(RulesOn(name)) = 1
              /\ \A ru \in RulesOn(name) :
                    /\ ru.first <= 2 /\ ru.last >= sheet.nrows + 1
                    /\ ru.start_type = "min" /\ ru.end_type = "max"
                    /\ ru.mid_type = Assigned(name).mid_type
                    /\ ru.mid_value = Assigned(name).mid_value
                    /\ Palette(ru) = Assigned(name).colors
        /\ \A ru \in sheet.rules :
              \E name \in ScaledColumns : ru \in RulesOn(name)

\* the anchor of a colour-scale rule
Anchor(ru) ==
    CASE ru.mid_type = "num" /\ ru.mid_value = 0 -> "zero"
      [] ru.mid_type = "percentile" /\ ru.mid_value = 50 -> "median"
      [] OTHER -> "other"

\* C9 (as claimed): for every scaled column the spreadsheet and the preview
\* use the same anchor policy (zero or median) and the same min/mid/max
\* colours, so that a value gets the same colour on both surfaces.
C9_SurfacesAgree ==
    (sheet.written /\ preview.shown) =>
        \A name \in ScaledColumns :
            /\ RulesOn(name) # {}
            /\ \E st \in preview.styles : st.column = name
            /\ \A ru \in RulesOn(name) :
                  \A st \in preview.styles :
                      st.column = name =>
                          /\ st.colors = Palette(ru)
                          /\ st.anchor = Anchor(ru)
                          /\ st.anchor \in {"zero", "median"}

\* row j ranks before row i in the descending order of column col, rows of
\* equal value in their original order
RanksBefore(col, j, i) ==
    col[j].v > col[i].v \/ (col[j].v = col[i].v /\ j < i)

\* the k highest-ranked rows of a column (rows with a value)
TopRows(col, k) ==
    {i \in 1..Len(col) :
        /\ ~col[i].nan
        /\ Cardinality({j \in 1..Len(col) :
                           ~col[j].nan /\ RanksBefore(col, j, i)}) < k}

joint_top_k(column_a, column_b, k) == TopRows(column_a, k) \cap TopRows(column_b, k)

\* the data rows (0-based in the table, sheet row + 2) whose cell in the
\* column called name has a pattern fill
Filled(name) ==
    {r \in 1..sheet.nrows :
        \E f \in sheet.fills :
            f.row = r + 1 /\ sheet.columns[f.column] = name}

\* C10 (as claimed): for each side the sheet fills the breakeven-price cell of
\* exactly the rows of joint_top_k(OI CHANGE, MONEY, 4).
C10_JointTopFourHighlighted ==
    sheet.written =>
        /\ Filled("CE BEP") =
              joint_top_k(GetColumn(out, "CE OI CHANGE"),
                          GetColumn(out, "CE MONEY"), 4)
        /\ Filled("PE BEP") =
              joint_top_k(GetColumn(out, "PE OI CHANGE"),
                          GetColumn(out, "PE MONEY"), 4)

\* a header cell that is missing, or blank once trimmed
BlankHeader(c) == c.t = "nan" \/ (c.t = "str" /\ Strip(c.s) = <<>>)

\* the text Column_<p> of a position p below 10
PlaceholderName(p) ==
    <<"C", "o", "l", "u", "m", "n", "_">>
        \o << <<"0", "1", "2", "3", "4", "5", "6", "7", "8", "9">>[p + 1] >>

\* C11 (as claimed): header resolution reads raw row 1 and yields one name
\* per column position; a position whose header cell is missing or blank after
\* trimming is named exactly Column_<p>, every other position keeps the text
\* of its cell (compared here up to surrounding whitespace), duplicates stay
\* where they are, and so every position has a non-empty name.
C11_HeaderNames ==
    (pc # "start" /\ Len(raw) >= 2) =>
        /\ Len(headers) = Len(raw[2])
        /\ \A i \in 1..Len(headers) :
              /\ headers[i].t # "nan"
              /\ Strip(CellStr(headers[i])) # <<>>
              /\ IF BlankHeader(raw[2][i])
                 THEN headers[i] = Str(PlaceholderName(i - 1))
                 ELSE Strip(CellStr(headers[i])) = Strip(CellStr(raw[2][i]))

====
